---- MODULE Spec2Model ----
(***************************************************************************)
(* scripts/examine_login.py: a straight-line script that drives a headless *)
(* browser over the login page and prints what it finds.                   *)
(*                                                                         *)
(* The program is modelled statement by statement.  pc holds the label of  *)
(* the next statement ("L13" is line 13 of the script), env the script's   *)
(* local variables, trace the library calls issued and the lines printed,  *)
(* in order.  The page the library sees (dom) is the input; every library  *)
(* call either returns what dom holds or raises.                           *)
(*                                                                         *)
(* Strings are sequences of tokens (a token is a TLA+ string, normally one *)
(* character); the literal pieces of an f-string are single tokens.        *)
(***************************************************************************)
EXTENDS Integers, Sequences, FiniteSets, TLC

VARIABLES dom, pc, env, trace, browser, playwright

vars == <<dom, pc, env, trace, browser, playwright>>

-----------------------------------------------------------------------------
(* Bounds of the model. *)

MaxButtons == 2

MaxFields == 1

MaxGoogle == 2

MaxContainers == 6

MaxOver == 2

(* Program constants. *)

BodyLimit == 2000

ClassLimit == 50

ContainerLimit == 5

-----------------------------------------------------------------------------
(* Values *)

Min(a, b) == IF a < b THEN a ELSE b

None == [isNone |-> TRUE, val |-> <<>>]

Some(s) == [isNone |-> FALSE, val |-> s]

Alphabet == <<"a", "b", "c">>

StrOfLen(n) == [k \in 1..n |-> Alphabet[(k % 3) + 1]]

Pick(pool, k) == pool[(k % Len(pool)) + 1]

(* s[:n] of Python *)
Slice(s, n) == SubSeq(s, 1, Min(n, Len(s)))

(* x or d of Python, x a string or None: None and '' are falsy *)
OrDefault_noneOnly(x, d) == IF x.isNone THEN d ELSE x.val

OrDefault(x, d) == IF x.isNone \/ x.val = <<>> THEN d ELSE x.val

(* body_text[:2000] if len(body_text) > 2000 else body_text *)
TruncBody_offByOne(t) == IF Len(t) > BodyLimit THEN Slice(t, BodyLimit - 1) ELSE t

TruncBody(t) == IF Len(t) > BodyLimit THEN Slice(t, BodyLimit) ELSE t

(* classes[:50] *)
TruncClass_none(c) == c

TruncClass(c) == Slice(c, ClassLimit)

(* containers[:5] *)
ContainersIter_all(list) == list

ContainersIter(list) == Slice(list, ContainerLimit)

-----------------------------------------------------------------------------
(* The lines the script prints (its f-strings). *)

ButtonLine(text, classes) == <<"  Button: '">> \o text \o <<"' | class: ">> \o TruncClass(classes)

LinkLine(text, href) == <<"  Link: '">> \o text \o <<"' -> ">> \o href

InputLine(type, name, placeholder) ==
    <<"  Input: type=">> \o type \o <<", name=">> \o name \o <<", placeholder=">> \o placeholder

GoogleLine(tag, text) == <<"  ">> \o tag \o <<": ">> \o text

ContainerLine(classes) == <<"  Container: ">> \o classes

TitleLine(title) == <<"\nPage title: ">> \o title

ScreenshotLine == <<"Screenshot saved to /tmp/login_page.png">>

DoneLine == <<"\nDone examining login page.">>

-----------------------------------------------------------------------------
(* The pages the script is run against. *)

TextPool == << <<"L", "o", "g">>, <<>>, <<"G">>, <<"S", "i", "g", "n", " ", "i", "n">> >>

ClassPool ==
    << None, Some(StrOfLen(2)), Some(<<>>), Some(StrOfLen(ClassLimit)),
       Some(StrOfLen(ClassLimit + 1)), Some(StrOfLen(ClassLimit + MaxOver)) >>

AttrPool == << Some(<<"e", "m", "a", "i", "l">>), None, Some(<<>>), Some(<<"/", "x">>) >>

TagPool == << <<"DIV">>, <<"BUTTON">>, <<"SPAN">> >>

BodyPool ==
    << StrOfLen(3), StrOfLen(BodyLimit + 1), <<>>, StrOfLen(BodyLimit),
       StrOfLen(BodyLimit + MaxOver), StrOfLen(1) >>

Bit(v, k) == (v \div (2 ^ (k - 1))) % 2 = 1

PageOf(v, nb, nl, ni, ng, nc) ==
    [ title     |-> Pick(TextPool, v),
      body      |-> Pick(BodyPool, v),
      button    |-> [k \in 1..nb |-> [text |-> Pick(TextPool, v + k),
                                      class |-> Pick(ClassPool, v + k - 1)]],
      a         |-> [k \in 1..nl |-> [text |-> Pick(TextPool, v + k + 1),
                                      href |-> Pick(AttrPool, v + k)]],
      input     |-> [k \in 1..ni |-> [type |-> Pick(AttrPool, v + k + 1),
                                      name |-> Pick(AttrPool, v + k + 2),
                                      placeholder |-> Pick(AttrPool, v + k + 3)]],
      google    |-> [k \in 1..ng |-> [tag |-> Pick(TagPool, v + k),
                                      text |-> Pick(TextPool, v + k),
                                      visible |-> Bit(v, k)]],
      container |-> [k \in 1..nc |-> [class |-> Pick(ClassPool, v + 2 * k)]] ]

(* One page per rotation of the pools and per number of matches of each    *)
(* selector (the a and input selectors match the same number).             *)
Variants == 0..(Len(BodyPool) - 1)

Pages ==
    { PageOf(v, nb, nf, nf, ng, nc) :
        v \in Variants, nb \in 0..MaxButtons, nf \in 0..MaxFields,
        ng \in 0..MaxGoogle, nc \in 0..MaxContainers }

-----------------------------------------------------------------------------
(* What the library returns for a page. *)

LibTitle == dom.title

LibAll(sel) == [k \in 1..Len(dom[sel]) |-> k]

LibInnerText(sel, h) == IF sel = "body" THEN dom.body ELSE dom[sel][h].text

LibGetAttribute(sel, h, attr) == dom[sel][h][attr]

LibEvaluateTagName(h) == dom.google[h].tag

LibIsVisible(h) == dom.google[h].visible

-----------------------------------------------------------------------------
(* Events of the trace: a library call (ok = FALSE when it raised) or a    *)
(* printed line.  nth is the element handle the call or the line is about. *)

CallEv(l, op, on, arg, nth) ==
    [stmt |-> l, op |-> op, on |-> on, arg |-> arg, nth |-> nth, ok |-> TRUE, line |-> <<>>]

PrintEv(l, nth, line) ==
    [stmt |-> l, op |-> "print", on |-> "stdout", arg |-> "", nth |-> nth, ok |-> TRUE, line |-> line]

(* Program order of the straight-line statements; the loops' exits and     *)
(* back edges are in the for statements below.                             *)
Succ ==
    [ L3 |-> "L4", L4 |-> "L5", L5 |-> "L8", L8 |-> "L9", L9 |-> "L10", L10 |-> "L13",
      L13 |-> "L14", L14 |-> "L17", L17 |-> "L20", L20 |-> "L21", L21 |-> "L22",
      L22 |-> "L25", L25 |-> "L26", L26 |-> "L27", L28 |-> "L29", L29 |-> "L30",
      L30 |-> "L27", L33 |-> "L34", L34 |-> "L35", L36 |-> "L37", L37 |-> "L38",
      L38 |-> "L35", L41 |-> "L42", L42 |-> "L43", L44 |-> "L45", L45 |-> "L46",
      L46 |-> "L47", L47 |-> "L43", L50 |-> "L51", L51 |-> "L52", L53 |-> "L54",
      L54t |-> "L55", L55 |-> "L52", L58 |-> "L59", L59 |-> "L60", L61 |-> "L62",
      L62 |-> "L60", L64 |-> "L65", L65 |-> "exit" ]

NextStmt_shotLate(l) == IF l = "L10" THEN "L17" ELSE IF l = "L22" THEN "L13"
                        ELSE IF l = "L14" THEN "L25" ELSE Succ[l]

NextStmt_noLoadWait(l) == IF l = "L8" THEN "L10" ELSE Succ[l]

NextStmt(l) == Succ[l]

(* Where control goes when the call of statement l raises: nothing in the  *)
(* script catches, so the exception leaves the with block.                 *)
FailTarget_retry(l) == l

FailTarget_noWith(l) == "terminated"

FailTarget(l) == "unwind"

(* elem.inner_text() if elem.is_visible() else '' *)
VisibleBranch_always(v) == "L54t"

VisibleBranch_never(v) == "L55"

VisibleBranch(v) == IF v THEN "L54t" ELSE "L55"

-----------------------------------------------------------------------------
(* Statements *)

Unbound ==
    [ body_text |-> <<>>, buttons |-> <<>>, links |-> <<>>, inputs |-> <<>>,
      google_elements |-> <<>>, containers |-> <<>>, i |-> 0, cur |-> 0,
      text |-> <<>>, classes |-> <<>>, href |-> <<>>, input_type |-> <<>>,
      name |-> <<>>, placeholder |-> <<>>, tag |-> <<>> ]

Init ==
    /\ dom \in Pages
    /\ pc = "L3"
    /\ env = Unbound
    /\ trace = <<>>
    /\ browser = "none"
    /\ playwright = "none"

(* A library call at statement l: it returns, and newEnv are the locals    *)
(* after the assignment, or it raises.                                     *)
Call(l, ev, newEnv) ==
    /\ pc = l
    /\ \/ /\ trace' = Append(trace, ev)
          /\ env' = newEnv
          /\ pc' = NextStmt(l)
       \/ /\ trace' = Append(trace, [ev EXCEPT !.ok = FALSE])
          /\ env' = env
          /\ pc' = FailTarget(l)
    /\ UNCHANGED <<dom, browser, playwright>>

Say(l, nth, line) ==
    /\ pc = l
    /\ trace' = Append(trace, PrintEv(l, nth, line))
    /\ pc' = NextStmt(l)
    /\ UNCHANGED <<dom, env, browser, playwright>>

(* for x in list: at statement l, body at lbody, the statement after the   *)
(* loop at lexit *)
For(l, list, lbody, lexit) ==
    /\ pc = l
    /\ IF env.i < Len(list)
          THEN /\ env' = [env EXCEPT !.i = env.i + 1, !.cur = list[env.i + 1]]
               /\ pc' = lbody
          ELSE /\ env' = [env EXCEPT !.i = 0, !.cur = 0]
               /\ pc' = lexit
    /\ UNCHANGED <<dom, trace, browser, playwright>>

EnterWith ==
    /\ pc = "L3"
    /\ \/ /\ trace' = Append(trace, CallEv("L3", "sync_playwright", "", "", 0))
          /\ playwright' = "running"
          /\ pc' = NextStmt("L3")
       \/ /\ trace' = Append(trace, [CallEv("L3", "sync_playwright", "", "", 0) EXCEPT !.ok = FALSE])
          /\ playwright' = playwright
          /\ pc' = "terminated"
    /\ UNCHANGED <<dom, env, browser>>

Launch ==
    /\ pc = "L4"
    /\ \/ /\ trace' = Append(trace, CallEv("L4", "launch", "chromium", "", 0))
          /\ browser' = "open"
          /\ pc' = NextStmt("L4")
       \/ /\ trace' = Append(trace, [CallEv("L4", "launch", "chromium", "", 0) EXCEPT !.ok = FALSE])
          /\ browser' = browser
          /\ pc' = FailTarget("L4")
    /\ UNCHANGED <<dom, env, playwright>>

NewPage == Call("L5", CallEv("L5", "new_page", "browser", "", 0), env)

Goto == Call("L8", CallEv("L8", "goto", "page", "http://localhost:5173/app", 0), env)

WaitForLoadState == Call("L9", CallEv("L9", "wait_for_load_state", "page", "domcontentloaded", 0), env)

WaitForTimeout == Call("L10", CallEv("L10", "wait_for_timeout", "page", "2000", 0), env)

Screenshot == Call("L13", CallEv("L13", "screenshot", "page", "/tmp/login_page.png", 0), env)

SayScreenshot == Say("L14", 0, ScreenshotLine)

(* print(f"\nPage title: {page.title()}"): the call, then the print *)
SayTitle ==
    /\ pc = "L17"
    /\ \/ /\ trace' = trace \o << CallEv("L17", "title", "page", "", 0),
                                  PrintEv("L17", 0, TitleLine(LibTitle)) >>
          /\ pc' = NextStmt("L17")
       \/ /\ trace' = Append(trace, [CallEv("L17", "title", "page", "", 0) EXCEPT !.ok = FALSE])
          /\ pc' = FailTarget("L17")
    /\ UNCHANGED <<dom, env, browser, playwright>>

SayContentHeader == Say("L20", 0, <<"\n--- Page Content ---">>)

BodyInnerText ==
    Call("L21", CallEv("L21", "inner_text", "body", "", 0),
         [env EXCEPT !.body_text = LibInnerText("body", 0)])

SayBody == Say("L22", 0, TruncBody(env.body_text))

SayButtonsHeader == Say("L25", 0, <<"\n--- Buttons Found ---">>)

ButtonsAll ==
    Call("L26", CallEv("L26", "all", "button", "", 0), [env EXCEPT !.buttons = LibAll("button")])

ForButtons == For("L27", env.buttons, "L28", "L33")

ButtonInnerText ==
    Call("L28", CallEv("L28", "inner_text", "button", "", env.cur),
         [env EXCEPT !.text = LibInnerText("button", env.cur)])

ButtonClass ==
    Call("L29", CallEv("L29", "get_attribute", "button", "class", env.cur),
         [env EXCEPT !.classes = OrDefault(LibGetAttribute("button", env.cur, "class"), <<>>)])

SayButton == Say("L30", env.cur, ButtonLine(env.text, env.classes))

SayLinksHeader == Say("L33", 0, <<"\n--- Links Found ---">>)

LinksAll ==
    Call("L34", CallEv("L34", "all", "a", "", 0), [env EXCEPT !.links = LibAll("a")])

ForLinks == For("L35", env.links, "L36", "L41")

LinkInnerText ==
    Call("L36", CallEv("L36", "inner_text", "a", "", env.cur),
         [env EXCEPT !.text = LibInnerText("a", env.cur)])

LinkHref ==
    Call("L37", CallEv("L37", "get_attribute", "a", "href", env.cur),
         [env EXCEPT !.href = OrDefault(LibGetAttribute("a", env.cur, "href"), <<>>)])

SayLink == Say("L38", env.cur, LinkLine(env.text, env.href))

SayInputsHeader == Say("L41", 0, <<"\n--- Form Inputs Found ---">>)

InputsAll ==
    Call("L42", CallEv("L42", "all", "input", "", 0), [env EXCEPT !.inputs = LibAll("input")])

ForInputs == For("L43", env.inputs, "L44", "L50")

InputType ==
    Call("L44", CallEv("L44", "get_attribute", "input", "type", env.cur),
         [env EXCEPT !.input_type =
             OrDefault(LibGetAttribute("input", env.cur, "type"), <<"t", "e", "x", "t">>)])

InputName ==
    Call("L45", CallEv("L45", "get_attribute", "input", "name", env.cur),
         [env EXCEPT !.name = OrDefault(LibGetAttribute("input", env.cur, "name"), <<>>)])

InputPlaceholder ==
    Call("L46", CallEv("L46", "get_attribute", "input", "placeholder", env.cur),
         [env EXCEPT !.placeholder =
             OrDefault(LibGetAttribute("input", env.cur, "placeholder"), <<>>)])

SayInput == Say("L47", env.cur, InputLine(env.input_type, env.name, env.placeholder))

SayGoogleHeader == Say("L50", 0, <<"\n--- Google OAuth Elements ---">>)

GoogleAll ==
    Call("L51", CallEv("L51", "all", "google", "", 0),
         [env EXCEPT !.google_elements = LibAll("google")])

ForGoogle == For("L52", env.google_elements, "L53", "L58")

GoogleTag ==
    Call("L53", CallEv("L53", "evaluate", "google", "el => el.tagName", env.cur),
         [env EXCEPT !.tag = LibEvaluateTagName(env.cur)])

(* the condition of line 54: is_visible() is called first *)
GoogleIsVisible ==
    /\ pc = "L54"
    /\ \/ /\ trace' = Append(trace, CallEv("L54", "is_visible", "google", "", env.cur))
          /\ env' = [env EXCEPT !.text = <<>>]
          /\ pc' = VisibleBranch(LibIsVisible(env.cur))
       \/ /\ trace' = Append(trace, [CallEv("L54", "is_visible", "google", "", env.cur) EXCEPT !.ok = FALSE])
          /\ env' = env
          /\ pc' = FailTarget("L54")
    /\ UNCHANGED <<dom, browser, playwright>>

GoogleInnerText ==
    Call("L54t", CallEv("L54t", "inner_text", "google", "", env.cur),
         [env EXCEPT !.text = LibInnerText("google", env.cur)])

SayGoogle == Say("L55", env.cur, GoogleLine(env.tag, env.text))

SayContainersHeader == Say("L58", 0, <<"\n--- Main Containers ---">>)

ContainersAll ==
    Call("L59", CallEv("L59", "all", "container", "", 0),
         [env EXCEPT !.containers = LibAll("container")])

ForContainers == For("L60", ContainersIter(env.containers), "L61", "L64")

ContainerClass ==
    Call("L61", CallEv("L61", "get_attribute", "container", "class", env.cur),
         [env EXCEPT !.classes = OrDefault(LibGetAttribute("container", env.cur, "class"), <<>>)])

SayContainer == Say("L62", env.cur, ContainerLine(env.classes))

BrowserClose ==
    /\ pc = "L64"
    /\ \/ /\ trace' = Append(trace, CallEv("L64", "close", "browser", "", 0))
          /\ browser' = "closed"
          /\ pc' = NextStmt("L64")
       \/ /\ trace' = Append(trace, [CallEv("L64", "close", "browser", "", 0) EXCEPT !.ok = FALSE])
          /\ browser' = browser
          /\ pc' = FailTarget("L64")
    /\ UNCHANGED <<dom, env, playwright>>

SayDone == Say("L65", 0, DoneLine)

(* Leaving the with block, at its end or by an exception: the context      *)
(* manager stops Playwright, which ends every browser it launched.         *)
ExitWith ==
    /\ pc \in {"exit", "unwind"}
    /\ playwright' = "stopped"
    /\ browser' = IF browser = "open" THEN "closed" ELSE browser
    /\ pc' = "terminated"
    /\ UNCHANGED <<dom, env, trace>>

Next ==
    \/ EnterWith \/ Launch \/ NewPage \/ Goto \/ WaitForLoadState \/ WaitForTimeout
    \/ Screenshot \/ SayScreenshot \/ SayTitle \/ SayContentHeader \/ BodyInnerText
    \/ SayBody \/ SayButtonsHeader \/ ButtonsAll \/ ForButtons \/ ButtonInnerText
    \/ ButtonClass \/ SayButton \/ SayLinksHeader \/ LinksAll \/ ForLinks
    \/ LinkInnerText \/ LinkHref \/ SayLink \/ SayInputsHeader \/ InputsAll
    \/ ForInputs \/ InputType \/ InputName \/ InputPlaceholder \/ SayInput
    \/ SayGoogleHeader \/ GoogleAll \/ ForGoogle \/ GoogleTag \/ GoogleIsVisible
    \/ GoogleInnerText \/ SayGoogle \/ SayContainersHeader \/ ContainersAll
    \/ ForContainers \/ ContainerClass \/ SayContainer \/ BrowserClose \/ SayDone
    \/ ExitWith

Spec == Init /\ [][Next]_vars

-----------------------------------------------------------------------------
(* Reading the trace *)

Raised == \E k \in DOMAIN trace : ~trace[k].ok

Completed == pc = "terminated" /\ ~Raised

IsCall(e) == e.op # "print"

IsPrintOf(e, l) == e.op = "print" /\ e.stmt = l

PrintsOf(l) == SelectSeq(trace, LAMBDA e : IsPrintOf(e, l))

(* The trace only grows, so each event is the last one in the state that   *)
(* its step leads to: what holds of the last event in every state holds of *)
(* every event.                                                            *)
Last == trace[Len(trace)]

LastIsPrintOf(l) == trace # <<>> /\ IsPrintOf(Last, l)

(* the first n items of s, item by item *)
Take(s, n) == [k \in 1..n |-> s[k]]

(* what the claims call the value used for an attribute: its default when  *)
(* it is missing or empty                                                  *)
Defaulted(a, d) == IF a.isNone THEN d ELSE IF Len(a.val) = 0 THEN d ELSE a.val

(* the part of a printed line after its literal piece tok *)
After(line, tok) ==
    LET p == CHOOSE q \in 1..Len(line) : line[q] = tok
    IN  [k \in 1..(Len(line) - p) |-> line[p + k]]

(* the part of a printed line between its literal pieces tok1 and tok2 *)
Between(line, tok1, tok2) ==
    LET p == CHOOSE q \in 1..Len(line) : line[q] = tok1
        r == CHOOSE q \in 1..Len(line) : line[q] = tok2
    IN  [k \in 1..(r - p - 1) |-> line[p + k]]

-----------------------------------------------------------------------------
(* C1: whenever the script has terminated - at its end or by a failure of  *)
(* any library call - the browser is not held and Playwright is not        *)
(* running; a browser is only ever held while Playwright is running.       *)
C1_BrowserReleased ==
    /\ pc = "terminated" => browser # "open" /\ playwright # "running"
    /\ browser = "open" => playwright = "running"

(* a DOM query failed with the browser open, and the script has ended with *)
(* the browser closed                                                      *)
C1_Witness ==
    /\ pc = "terminated"
    /\ browser = "closed"
    /\ \E k \in DOMAIN trace : ~trace[k].ok /\ trace[k].op = "get_attribute"

(* C2: a call that raised is the last event of the trace (it is not        *)
(* retried, no later statement runs, nothing more is printed) and control  *)
(* is leaving or has left the script; the Done line is printed only after  *)
(* every call before it, browser.close last, returned.                     *)
C2_FailurePropagates ==
    /\ \A k \in DOMAIN trace :
          ~trace[k].ok => k = Len(trace) /\ pc \in {"unwind", "terminated"}
    /\ \A k \in DOMAIN trace :
          trace[k].line = DoneLine =>
              /\ \A j \in 1..(k - 1) : trace[j].ok
              /\ k > 1 /\ trace[k - 1] = CallEv("L64", "close", "browser", "", 0)
              /\ k = Len(trace)
    /\ pc \in {"unwind"} => Raised

(* inner_text of a link raised and the script has ended there *)
C2_Witness ==
    /\ pc = "terminated"
    /\ trace # <<>>
    /\ ~trace[Len(trace)].ok
    /\ trace[Len(trace)].op = "inner_text"
    /\ trace[Len(trace)].on = "a"

-----------------------------------------------------------------------------
(* The fixed sequence of steps of C3, by the statement that takes them;    *)
(* the statements of a loop body are listed after the loop's for.          *)
StepOrder ==
    << "L3", "L4", "L5", "L8", "L9", "L10", "L13", "L14", "L17", "L20", "L21", "L22",
       "L25", "L26", "L27", "L28", "L29", "L30",
       "L33", "L34", "L35", "L36", "L37", "L38",
       "L41", "L42", "L43", "L44", "L45", "L46", "L47",
       "L50", "L51", "L52", "L53", "L54", "L54t", "L55",
       "L58", "L59", "L60", "L61", "L62", "L64", "L65" >>

Steps == {StepOrder[n] : n \in 1..Len(StepOrder)}

Pos[l \in Steps] == CHOOSE n \in 1..Len(StepOrder) : StepOrder[n] = l

PosOf(l) == Pos[l]

LoopOf(l) ==
    IF l \in {"L28", "L29", "L30"} THEN "L27"
    ELSE IF l \in {"L36", "L37", "L38"} THEN "L35"
    ELSE IF l \in {"L44", "L45", "L46", "L47"} THEN "L43"
    ELSE IF l \in {"L53", "L54", "L54t", "L55"} THEN "L52"
    ELSE IF l \in {"L61", "L62"} THEN "L60"
    ELSE l

OnceSteps == { l \in Steps : LoopOf(l) = l } \ {"L27", "L35", "L43", "L52", "L60"}

(* the place of an event in the fixed sequence: section, element, step,    *)
(* and a statement's call before its print                                 *)
Key(e) ==
    PosOf(LoopOf(e.stmt)) * 100000 + e.nth * 1000 + PosOf(e.stmt) * 10
        + (IF e.op = "print" THEN 1 ELSE 0)

IsDomQuery(e) ==
    e.op \in {"title", "inner_text", "all", "get_attribute", "evaluate", "is_visible"}

(* C3: the events follow the fixed sequence: each event is later in it     *)
(* than the one before, which had returned; the first is the first step    *)
(* and no step of the sequence is skipped between an event and the next; a *)
(* DOM query comes only after the screenshot was taken and its path        *)
(* printed, and after browser.close nothing is called.                     *)
C3_FixedSequence ==
    /\ trace # <<>> => trace[1].stmt = StepOrder[1]
    /\ Len(trace) > 1 =>
          /\ trace[Len(trace) - 1].ok
          /\ Key(trace[Len(trace) - 1]) < Key(Last)
          /\ \A l \in OnceSteps :
                ~ /\ PosOf(LoopOf(trace[Len(trace) - 1].stmt)) < PosOf(l)
                  /\ PosOf(l) < PosOf(LoopOf(Last.stmt))
    /\ trace # <<>> /\ IsDomQuery(Last) =>
          \E j \in 1..(Len(trace) - 2) :
              /\ trace[j] = CallEv("L13", "screenshot", "page", "/tmp/login_page.png", 0)
              /\ trace[j + 1] = PrintEv("L14", 0, ScreenshotLine)
    /\ trace # <<>> /\ IsCall(Last) =>
          \A j \in 1..(Len(trace) - 1) : trace[j].op # "close"

(* a run to the end over a page with two buttons and more containers than  *)
(* are printed                                                             *)
C3_Witness ==
    /\ Completed
    /\ Len(dom.button) = 2
    /\ Len(dom.google) = 2
    /\ Len(dom.container) > ContainerLimit
    /\ trace[Len(trace)].line = DoneLine

-----------------------------------------------------------------------------
(* C4 as stated: goto is issued once and every call between goto and the   *)
(* screenshot is the fixed delay.                                          *)
C4_OnlyFixedDelay ==
    /\ Cardinality({k \in DOMAIN trace : trace[k].op = "goto"}) <= 1
    /\ \A j \in DOMAIN trace : \A m \in DOMAIN trace :
          trace[j].op = "goto" /\ trace[m].op = "screenshot" =>
              \A k \in (j + 1)..(m - 1) : trace[k].op = "wait_for_timeout"

(* C4 amended: goto is issued once, and the calls between it and the       *)
(* screenshot are exactly wait_for_load_state('domcontentloaded'), a wait  *)
(* on the page's load state, and then the fixed delay of 2000 ms.          *)
C4_LoadStateThenFixedDelay ==
    /\ trace # <<>> /\ Last.op = "goto" =>
          \A j \in 1..(Len(trace) - 1) : trace[j].op # "goto"
    /\ trace # <<>> /\ Last.op = "screenshot" =>
          LET m == Len(trace)
          IN  /\ m > 3
              /\ trace[m - 3] = CallEv("L8", "goto", "page", "http://localhost:5173/app", 0)
              /\ trace[m - 2] = CallEv("L9", "wait_for_load_state", "page", "domcontentloaded", 0)
              /\ trace[m - 1] = CallEv("L10", "wait_for_timeout", "page", "2000", 0)

(* the screenshot has been taken *)
C4_Witness == trace # <<>> /\ Last.op = "screenshot" /\ Last.ok

-----------------------------------------------------------------------------
(* C5: the page content printed is the prefix of the body text of length   *)
(* min(len, 2000), the body text itself when it has at most 2000           *)
(* characters; the class printed for a button is the prefix of its class   *)
(* attribute of length min(len, 50).                                       *)
C5_Truncation ==
    /\ LastIsPrintOf("L22") =>
          LET t == dom.body
              p == Last.line
          IN  /\ Len(p) = Min(Len(t), 2000)
              /\ \A n \in 1..Len(p) : p[n] = t[n]
              /\ Len(t) <= 2000 => p = t
    /\ LastIsPrintOf("L30") =>
          LET a == dom.button[Last.nth].class
              c == IF a.isNone THEN <<>> ELSE a.val
              p == After(Last.line, "' | class: ")
          IN  /\ Len(p) = Min(Len(c), 50)
              /\ \A n \in 1..Len(p) : p[n] = c[n]

(* a body text of more than 2000 characters and a class of more than 50    *)
(* have been printed                                                       *)
C5_Witness ==
    /\ Len(dom.body) > 2000
    /\ \E k \in DOMAIN trace : IsPrintOf(trace[k], "L22") /\ Len(trace[k].line) = 2000
    /\ LastIsPrintOf("L30")
    /\ Len(dom.button[Last.nth].class.val) > 50

-----------------------------------------------------------------------------
(* The lines of a section, as printed so far. *)
Lines(l) == LET ps == PrintsOf(l) IN [k \in 1..Len(ps) |-> ps[k].line]

(* a returned value printed as it is *)
Raw(a) == IF a.isNone THEN <<"None">> ELSE a.val

(* C6 as stated: after a run without failure, each section holds one line  *)
(* per matched element, in the library's order, with the values the        *)
(* library returned, unchanged.                                            *)
C6_PassThrough ==
    Completed =>
        /\ Lines("L30") = [k \in 1..Len(dom.button) |->
              <<"  Button: '">> \o dom.button[k].text \o <<"' | class: ">>
                  \o Raw(dom.button[k].class)]
        /\ Lines("L38") = [k \in 1..Len(dom.a) |->
              <<"  Link: '">> \o dom.a[k].text \o <<"' -> ">> \o Raw(dom.a[k].href)]
        /\ Lines("L47") = [k \in 1..Len(dom.input) |->
              <<"  Input: type=">> \o Raw(dom.input[k].type) \o <<", name=">>
                  \o Raw(dom.input[k].name) \o <<", placeholder=">>
                  \o Raw(dom.input[k].placeholder)]
        /\ Lines("L55") = [k \in 1..Len(dom.google) |->
              <<"  ">> \o dom.google[k].tag \o <<": ">> \o dom.google[k].text]
        /\ Lines("L62") = [k \in 1..Len(dom.container) |->
              <<"  Container: ">> \o Raw(dom.container[k].class)]

(* The lines of C6 as amended: texts and tag names as returned, a Google   *)
(* element's text only when it is visible; attributes as returned, but a   *)
(* missing or empty one as its default and a button's class cut to 50; of  *)
(* the containers the first 5 only.                                        *)
ExpButtons ==
    [k \in 1..Len(dom.button) |->
        LET c == Defaulted(dom.button[k].class, <<>>)
        IN  <<"  Button: '">> \o dom.button[k].text \o <<"' | class: ">>
                \o Take(c, Min(Len(c), 50))]

ExpLinks ==
    [k \in 1..Len(dom.a) |->
        <<"  Link: '">> \o dom.a[k].text \o <<"' -> ">> \o Defaulted(dom.a[k].href, <<>>)]

ExpInputs ==
    [k \in 1..Len(dom.input) |->
        <<"  Input: type=">> \o Defaulted(dom.input[k].type, <<"t", "e", "x", "t">>)
            \o <<", name=">> \o Defaulted(dom.input[k].name, <<>>)
            \o <<", placeholder=">> \o Defaulted(dom.input[k].placeholder, <<>>)]

ExpGoogle ==
    [k \in 1..Len(dom.google) |->
        <<"  ">> \o dom.google[k].tag \o <<": ">>
            \o (IF dom.google[k].visible THEN dom.google[k].text ELSE <<>>)]

ExpContainers ==
    [k \in 1..Min(Len(dom.container), 5) |->
        <<"  Container: ">> \o Defaulted(dom.container[k].class, <<>>)]

(* the line just printed by statement l is the next expected line of its   *)
(* section, for the next element; after a run without failure the section  *)
(* is complete                                                             *)
SectionAsExpected(l, exp) ==
    /\ LastIsPrintOf(l) =>
          LET n == Len(PrintsOf(l))
          IN  n <= Len(exp) /\ Last.nth = n /\ Last.line = exp[n]
    /\ Completed => Len(PrintsOf(l)) = Len(exp)

(* C6 amended: every matched element of the button, a, input and Google    *)
(* selectors, and each of the first 5 matches of the container selector,   *)
(* is printed exactly once, in the library's order, with the amended       *)
(* lines above.                                                            *)
C6_PrintedOnceInOrder ==
    /\ SectionAsExpected("L30", ExpButtons)
    /\ SectionAsExpected("L38", ExpLinks)
    /\ SectionAsExpected("L47", ExpInputs)
    /\ SectionAsExpected("L55", ExpGoogle)
    /\ SectionAsExpected("L62", ExpContainers)

(* a run without failure that printed a cut class, a defaulted href, the   *)
(* empty text of a hidden Google element and 5 of 6 containers             *)
C6_Witness ==
    /\ Completed
    /\ \E k \in 1..Len(dom.button) : Len(dom.button[k].class.val) > 50
    /\ \E k \in 1..Len(dom.a) : dom.a[k].href.isNone
    /\ \E k \in 1..Len(dom.google) : ~dom.google[k].visible /\ dom.google[k].text # <<>>
    /\ Len(dom.container) = 6
    /\ Len(PrintsOf("L62")) = 5

-----------------------------------------------------------------------------
(* The library calls of a run without failure, for given numbers of        *)
(* matches and given results of is_visible.                                *)
CallSeq == SelectSeq(trace, IsCall)

HeadCalls ==
    << CallEv("L3", "sync_playwright", "", "", 0),
       CallEv("L4", "launch", "chromium", "", 0),
       CallEv("L5", "new_page", "browser", "", 0),
       CallEv("L8", "goto", "page", "http://localhost:5173/app", 0),
       CallEv("L9", "wait_for_load_state", "page", "domcontentloaded", 0),
       CallEv("L10", "wait_for_timeout", "page", "2000", 0),
       CallEv("L13", "screenshot", "page", "/tmp/login_page.png", 0),
       CallEv("L17", "title", "page", "", 0),
       CallEv("L21", "inner_text", "body", "", 0) >>

ButtonCalls(n) ==
    [j \in 1..(2 * n) |->
        IF j % 2 = 1 THEN CallEv("L28", "inner_text", "button", "", (j + 1) \div 2)
        ELSE CallEv("L29", "get_attribute", "button", "class", j \div 2)]

LinkCalls(n) ==
    [j \in 1..(2 * n) |->
        IF j % 2 = 1 THEN CallEv("L36", "inner_text", "a", "", (j + 1) \div 2)
        ELSE CallEv("L37", "get_attribute", "a", "href", j \div 2)]

InputCalls(n) ==
    [j \in 1..(3 * n) |->
        IF j % 3 = 1 THEN CallEv("L44", "get_attribute", "input", "type", (j + 2) \div 3)
        ELSE IF j % 3 = 2 THEN CallEv("L45", "get_attribute", "input", "name", (j + 1) \div 3)
        ELSE CallEv("L46", "get_attribute", "input", "placeholder", j \div 3)]

RECURSIVE GoogleCalls(_, _)
GoogleCalls(vis, n) ==
    IF n = 0 THEN <<>>
    ELSE GoogleCalls(vis, n - 1)
            \o << CallEv("L53", "evaluate", "google", "el => el.tagName", n),
                  CallEv("L54", "is_visible", "google", "", n) >>
            \o (IF vis[n] THEN << CallEv("L54t", "inner_text", "google", "", n) >> ELSE <<>>)

ContainerCalls(n) ==
    [j \in 1..Min(n, 5) |-> CallEv("L61", "get_attribute", "container", "class", j)]

ExpectedCalls(nb, nl, ni, vis, nc) ==
    HeadCalls
        \o << CallEv("L26", "all", "button", "", 0) >> \o ButtonCalls(nb)
        \o << CallEv("L34", "all", "a", "", 0) >> \o LinkCalls(nl)
        \o << CallEv("L42", "all", "input", "", 0) >> \o InputCalls(ni)
        \o << CallEv("L51", "all", "google", "", 0) >> \o GoogleCalls(vis, Len(vis))
        \o << CallEv("L59", "all", "container", "", 0) >> \o ContainerCalls(nc)
        \o << CallEv("L64", "close", "browser", "", 0) >>

(* C7 as stated: the calls of a run without failure are fixed by the       *)
(* numbers of matches alone.  Were it so, they would be the calls of the   *)
(* run over a page with the same numbers of matches and every Google       *)
(* element visible, which C7 amended finds to be these.                    *)
C7_CallsByCountsAlone ==
    Completed =>
        CallSeq = ExpectedCalls(Len(dom.button), Len(dom.a), Len(dom.input),
                                [k \in 1..Len(dom.google) |-> TRUE], Len(dom.container))

(* C7 amended: the calls of a run without failure are fixed by the numbers *)
(* of matches and the results of is_visible, whatever the texts, tag names *)
(* and attributes returned.                                                *)
C7_CallsByCountsAndVisibility ==
    Completed =>
        CallSeq = ExpectedCalls(Len(dom.button), Len(dom.a), Len(dom.input),
                                [k \in 1..Len(dom.google) |-> dom.google[k].visible],
                                Len(dom.container))

(* a run without failure over a page with a visible and a hidden Google    *)
(* element, a body text over 2000 characters and a missing placeholder     *)
C7_Witness ==
    /\ Completed
    /\ Len(dom.google) = 2
    /\ dom.google[1].visible # dom.google[2].visible
    /\ Len(dom.body) > 2000
    /\ \E k \in 1..Len(dom.input) : dom.input[k].placeholder.isNone

-----------------------------------------------------------------------------
(* C8: a Google element's line holds its tag name, evaluated before, and   *)
(* its inner text when is_visible returned true, the empty string when it  *)
(* returned false; inner_text is called on a Google element only right     *)
(* after is_visible returned true for it.                                  *)
C8_TextOnlyWhenVisible ==
    /\ LastIsPrintOf("L55") =>
          LET h == Last.nth
              e == dom.google[h]
              m == Len(trace)
          IN  /\ \E j \in 1..(m - 1) :
                    trace[j] = CallEv("L53", "evaluate", "google", "el => el.tagName", h)
              /\ Between(Last.line, "  ", ": ") = e.tag
              /\ e.visible =>
                    /\ After(Last.line, ": ") = e.text
                    /\ trace[m - 1] = CallEv("L54t", "inner_text", "google", "", h)
              /\ ~e.visible =>
                    /\ After(Last.line, ": ") = <<>>
                    /\ trace[m - 1] = CallEv("L54", "is_visible", "google", "", h)
    /\ \A k \in DOMAIN trace :
          trace[k].op = "inner_text" /\ trace[k].on = "google" =>
              /\ dom.google[trace[k].nth].visible
              /\ k > 1
              /\ trace[k - 1] = CallEv("L54", "is_visible", "google", "", trace[k].nth)

(* the line of a hidden element with a text has been printed, after that   *)
(* of a visible one                                                        *)
C8_Witness ==
    /\ LastIsPrintOf("L55")
    /\ Last.nth = 2
    /\ dom.google[1].visible
    /\ ~dom.google[2].visible
    /\ dom.google[2].text # <<>>

-----------------------------------------------------------------------------
(* C9: get_attribute is never called on a container match beyond the       *)
(* fifth; the container lines are for matches 1, 2, ... in this order, at  *)
(* most min(n, 5) of them, and exactly min(n, 5) once the loop is left.    *)
C9_FirstFiveContainers ==
    /\ \A k \in DOMAIN trace :
          trace[k].on = "container" /\ trace[k].op = "get_attribute" => trace[k].nth <= 5
    /\ LastIsPrintOf("L62") =>
          LET n == Len(PrintsOf("L62"))
          IN  n <= Min(Len(dom.container), 5) /\ Last.nth = n
    /\ pc = "L64" => Len(PrintsOf("L62")) = Min(Len(dom.container), 5)

(* the loop is left over a page with 6 containers *)
C9_Witness ==
    /\ pc = "L64"
    /\ Len(dom.container) = 6
    /\ Len(PrintsOf("L62")) = 5

-----------------------------------------------------------------------------
Missing(a) == a.isNone \/ a.val = <<>>

(* C10: in a button, link, input or container line a missing or empty     *)
(* attribute is printed as the empty string, an input's type as 'text';   *)
(* an attribute with a value is printed as that value (a button's class   *)
(* cut to 50); no line holds a null value, and a get_attribute that       *)
(* returned leaves the script running.                                     *)
C10_AttributeDefaults ==
    /\ LastIsPrintOf("L30") =>
          LET a == dom.button[Last.nth].class
              p == After(Last.line, "' | class: ")
          IN  IF Missing(a) THEN p = <<>> ELSE p = SubSeq(a.val, 1, Min(Len(a.val), 50))
    /\ LastIsPrintOf("L38") =>
          LET a == dom.a[Last.nth].href
              p == After(Last.line, "' -> ")
          IN  IF Missing(a) THEN p = <<>> ELSE p = a.val
    /\ LastIsPrintOf("L47") =>
          LET e == dom.input[Last.nth]
              t == Between(Last.line, "  Input: type=", ", name=")
              n == Between(Last.line, ", name=", ", placeholder=")
              p == After(Last.line, ", placeholder=")
          IN  /\ IF Missing(e.type) THEN t = <<"t", "e", "x", "t">> ELSE t = e.type.val
              /\ IF Missing(e.name) THEN n = <<>> ELSE n = e.name.val
              /\ IF Missing(e.placeholder) THEN p = <<>> ELSE p = e.placeholder.val
    /\ LastIsPrintOf("L62") =>
          LET a == dom.container[Last.nth].class
              p == After(Last.line, "  Container: ")
          IN  IF Missing(a) THEN p = <<>> ELSE p = a.val
    /\ trace # <<>> /\ Last.op = "print" => \A n \in 1..Min(Len(Last.line), 60) : Last.line[n] # "None"
    /\ trace # <<>> /\ Last.op = "get_attribute" /\ Last.ok => pc \notin {"unwind", "terminated"}

(* the line of an input with no type, an empty name and a placeholder has  *)
(* been printed                                                            *)
C10_Witness ==
    /\ LastIsPrintOf("L47")
    /\ dom.input[Last.nth].type.isNone
    /\ ~dom.input[Last.nth].name.isNone
    /\ dom.input[Last.nth].name.val = <<>>
    /\ dom.input[Last.nth].placeholder.val # <<>>

====
